---- MODULE Spec2Model ----
(***************************************************************************)
(* LaundryTracker: the order ledger, its month/service aggregation, the    *)
(* multi-select deletion and the edit-and-confirm workflow of a draft.     *)
(*                                                                         *)
(* Representation.  Text is a sequence of one-character strings.  A value  *)
(* that may be a number, a string or absent is a record [kind, val].       *)
(* Weights are counted in tenths of a kilogram and prices in cents.  A     *)
(* timestamp is counted in days since the epoch (one unit = 86 400 000 ms) *)
(* and the local time zone is UTC.                                         *)
(***************************************************************************)
EXTENDS Integers, Sequences, FiniteSets, TLC

VARIABLES
    step,               \* App: Step.INPUT | PROCESSING | RESULT
    serviceName,        \* App: text of the service-name input
    weightPhoto,        \* App: File | null
    customerPhoto,      \* App: File | null
    error,              \* App: banner message | null
    result,             \* App: the draft | null
    history,            \* App: the ledger, a sequence of records
    selectedOrder,      \* App: record shown in the detail modal | null
    isSelectionMode,    \* App: selection mode
    selectedTimestamps, \* App: set of selected timestamps
    localStorage,       \* the item 'laundryTrackerHistory'
    resultsView,        \* ResultsView: its state while a draft is shown | null
    quotaExceeded,      \* the storage is full: setItem throws
    rendered,           \* the month sections of the last render, or that it threw
    ledgerOp,           \* the last operation on the ledger or on a draft: load,
                        \* mount, handleSave, handleDiscard, deleteSelected,
                        \* deleteSelected:declined
    extractions,        \* the calls of extractLaundryData that have not settled
    download            \* the file the last handler gave the browser to save | null

vars == <<step, serviceName, weightPhoto, customerPhoto, error, result, history,
          selectedOrder, isSelectionMode, selectedTimestamps, localStorage,
          resultsView, quotaExceeded, rendered, ledgerOp, extractions, download>>

-----------------------------------------------------------------------------
(* Bounds *)

MaxLedger == 3
MaxStored == 2
MaxHistory == 3
MaxDrafts == 1
MaxExport == 2

-----------------------------------------------------------------------------
(* JavaScript values *)

null == [kind |-> "null", val |-> 0]
undefined == [kind |-> "undefined", val |-> 0]
NaN == [kind |-> "NaN", val |-> 0]
Num(n) == [kind |-> "number", val |-> n]
Str(s) == [kind |-> "string", val |-> s]

Range(s) == {s[i] : i \in 1..Len(s)}

Text(str) ==
    \* the characters of a literal
    CASE str = "DATA_UNCLEAR" -> <<"D","A","T","A","_","U","N","C","L","E","A","R">>
      [] str = "constructor" -> <<"c","o","n","s","t","r","u","c","t","o","r">>
      [] str = "__proto__" -> <<"_","_","p","r","o","t","o","_","_">>

UpperCase == <<"A","B","C","D","E","F","G","H","I","J","K","L","M",
               "N","O","P","Q","R","S","T","U","V","W","X","Y","Z">>
LowerCase == <<"a","b","c","d","e","f","g","h","i","j","k","l","m",
               "n","o","p","q","r","s","t","u","v","w","x","y","z">>
Digits == <<"0","1","2","3","4","5","6","7","8","9">>
WhiteSpace == {" ", "\n", "\t", "\r"}

IndexOf(c, table) == CHOOSE i \in 1..Len(table) : table[i] = c

toLowerCaseChar(c) ==
    IF c \in Range(UpperCase) THEN LowerCase[IndexOf(c, UpperCase)] ELSE c

toLowerCase(s) == [i \in 1..Len(s) |-> toLowerCaseChar(s[i])]

RECURSIVE trimStart(_)
trimStart(s) ==
    IF s # <<>> /\ Head(s) \in WhiteSpace THEN trimStart(Tail(s)) ELSE s

RECURSIVE trimEnd(_)
trimEnd(s) ==
    IF s # <<>> /\ s[Len(s)] \in WhiteSpace
    THEN trimEnd(SubSeq(s, 1, Len(s) - 1))
    ELSE s

trim(s) == trimEnd(trimStart(s))

IsDigit(c) == c \in Range(Digits)
DigitValue(c) == IndexOf(c, Digits) - 1

RECURSIVE DecimalDigits(_)
DecimalDigits(n) ==
    \* String(n) of a non-negative integer
    IF n < 10 THEN <<Digits[n + 1]>>
    ELSE DecimalDigits(n \div 10) \o <<Digits[(n % 10) + 1]>>

RECURSIVE DigitsValue(_)
DigitsValue(s) ==
    IF s = <<>> THEN 0
    ELSE 10 * DigitsValue(SubSeq(s, 1, Len(s) - 1)) + DigitValue(s[Len(s)])

padStart(s, n, c) ==
    IF Len(s) >= n THEN s ELSE [i \in 1..(n - Len(s)) |-> c] \o s

\* UTF-16 code units of the characters the keys are made of
CharCode(c) ==
    CASE c = " " -> 32
      [] c = "-" -> 45
      [] IsDigit(c) -> 48 + DigitValue(c)
      [] c \in Range(UpperCase) -> 64 + IndexOf(c, UpperCase)
      [] c = "_" -> 95
      [] c \in Range(LowerCase) -> 96 + IndexOf(c, LowerCase)
      [] OTHER -> 0

RECURSIVE StringLess(_, _)
StringLess(a, b) ==
    \* a < b as Array.prototype.sort compares strings without a comparator
    IF a = <<>> THEN b # <<>>
    ELSE IF b = <<>> THEN FALSE
    ELSE IF Head(a) = Head(b) THEN StringLess(Tail(a), Tail(b))
    ELSE CharCode(Head(a)) < CharCode(Head(b))

-----------------------------------------------------------------------------
(* Date *)

\* the civil date of a day count (proleptic Gregorian calendar)
CivilFromDays(days) ==
    LET z == days + 719468
        era == z \div 146097
        doe == z - era * 146097
        yoe == (doe - doe \div 1460 + doe \div 36524 - doe \div 146096) \div 365
        doy == doe - (365 * yoe + yoe \div 4 - yoe \div 100)
        mp == (5 * doy + 2) \div 153
        m == IF mp < 10 THEN mp + 3 ELSE mp - 9
    IN  [year |-> yoe + era * 400 + (IF m <= 2 THEN 1 ELSE 0),
         month |-> m,
         day |-> doy - (153 * mp + 2) \div 5 + 1]

getFullYear(timestamp) == CivilFromDays(timestamp).year
getMonth(timestamp) == CivilFromDays(timestamp).month - 1

-----------------------------------------------------------------------------
(* Plain objects: a sequence of [key, value] entries in insertion order *)

\* the properties every plain object inherits from Object.prototype whose
\* names are all lower-case (the keys looked up here are lower-cased)
ObjectPrototypeKeys == {Text("constructor"), Text("__proto__")}

HasOwn(obj, k) == \E i \in 1..Len(obj) : obj[i].key = k
OwnIndex(obj, k) == CHOOSE i \in 1..Len(obj) : obj[i].key = k
GetOwn(obj, k) == obj[OwnIndex(obj, k)].value

\* !obj[k] : own values here are objects (truthy), inherited ones are truthy too
IsFalsyProperty(obj, k) == ~HasOwn(obj, k) /\ k \notin ObjectPrototypeKeys

SetOwn(obj, k, v) ==
    IF HasOwn(obj, k)
    THEN [obj EXCEPT ![OwnIndex(obj, k)] = [key |-> k, value |-> v]]
    ELSE Append(obj, [key |-> k, value |-> v])

\* an integer index ("0", "7", "12", ... below 2^32 - 1): such keys are
\* enumerated first, in ascending numeric order
MaxArrayIndex == <<"4","2","9","4","9","6","7","2","9","4">>
IsArrayIndex(k) ==
    /\ k # <<>>
    /\ \A i \in 1..Len(k) : IsDigit(k[i])
    /\ Len(k) = 1 \/ k[1] # "0"
    /\ Len(k) < Len(MaxArrayIndex)
       \/ (Len(k) = Len(MaxArrayIndex) /\ ~StringLess(MaxArrayIndex, k))

\* numeric order of two integer indices (canonical digit strings)
IndexLess(a, b) == Len(a) < Len(b) \/ (Len(a) = Len(b) /\ StringLess(a, b))

KeyLess(a, b, numeric) == IF numeric THEN IndexLess(a, b) ELSE StringLess(a, b)

RECURSIVE InsertSorted(_, _, _)
InsertSorted(sorted, k, numeric) ==
    IF sorted = <<>> THEN <<k>>
    ELSE IF KeyLess(k, Head(sorted), numeric) THEN <<k>> \o sorted
    ELSE <<Head(sorted)>> \o InsertSorted(Tail(sorted), k, numeric)

RECURSIVE SortBy(_, _)
SortBy(s, numeric) ==
    IF s = <<>> THEN <<>>
    ELSE InsertSorted(SortBy(SubSeq(s, 1, Len(s) - 1), numeric), s[Len(s)], numeric)

\* Object.keys(obj): integer indices ascending, then the other keys in
\* insertion order
ObjectKeys(obj) ==
    LET keys == [i \in 1..Len(obj) |-> obj[i].key]
        IsNotArrayIndex(k) == ~IsArrayIndex(k)
    IN  SortBy(SelectSeq(keys, IsArrayIndex), TRUE)
            \o SelectSeq(keys, IsNotArrayIndex)

ObjectValues(obj) ==
    LET keys == ObjectKeys(obj)
    IN  [i \in 1..Len(keys) |-> GetOwn(obj, keys[i])]

sort(s) == SortBy(s, FALSE)
reverse(s) == [i \in 1..Len(s) |-> s[Len(s) + 1 - i]]

-----------------------------------------------------------------------------
(* Aggregator *)

monthLabel(timestamp) ==
    [month |-> getMonth(timestamp) + 1, year |-> getFullYear(timestamp)]

\* the key without the zero padding of the month
sortKey_Unpadded(timestamp) ==
    DecimalDigits(getFullYear(timestamp)) \o <<"-">>
        \o DecimalDigits(getMonth(timestamp) + 1)

sortKey(timestamp) ==
    DecimalDigits(getFullYear(timestamp)) \o <<"-">>
        \o padStart(DecimalDigits(getMonth(timestamp) + 1), 2, "0")

rawName(curr) == trim(curr.laundry_service_name)
normalizedServiceKey(curr) == toLowerCase(rawName(curr))

\* the body of the reducer with its constants computed: acc is
\* [threw, months]; a TypeError ends the reduction
GroupInto(acc, curr, mk, label, name, sk) ==
    LET months1 == IF IsFalsyProperty(acc.months, mk)
                   THEN SetOwn(acc.months, mk, [label |-> label, services |-> <<>>])
                   ELSE acc.months
    IN  IF acc.threw THEN acc
        ELSE IF ~HasOwn(months1, mk)
        THEN [acc EXCEPT !.threw = TRUE]   \* acc[sortKey].services of an inherited value
        ELSE
          LET month == GetOwn(months1, mk)
              services1 == IF IsFalsyProperty(month.services, sk)
                           THEN SetOwn(month.services, sk,
                                       [displayName |-> name, records |-> <<>>])
                           ELSE month.services
          IN  IF ~HasOwn(services1, sk)
              THEN [acc EXCEPT !.threw = TRUE]   \* .records of an inherited value
              ELSE
                LET group == GetOwn(services1, sk)
                    group2 == [group EXCEPT !.records = Append(@, curr)]
                IN  [threw |-> FALSE,
                     months |-> SetOwn(months1, mk,
                         [month EXCEPT !.services = SetOwn(services1, sk, group2)])]

\* one call of the reducer
GroupStep(acc, curr) ==
    CHOOSE next \in
        {GroupInto(a, c, mk, label, name, toLowerCase(name)) :
            a \in {acc}, c \in {curr},
            mk \in {sortKey(curr.timestamp)},
            label \in {monthLabel(curr.timestamp)},
            name \in {rawName(curr)}} : TRUE

RECURSIVE reduce(_, _, _)
reduce(h, i, acc) ==
    IF i > Len(h) THEN acc
    ELSE IF h[i] = null THEN [acc EXCEPT !.threw = TRUE]   \* curr.timestamp of null
    ELSE reduce(h, i + 1, GroupStep(acc, h[i]))

groupedHistory(h) == reduce(h, 1, [threw |-> FALSE, months |-> <<>>])

sortedMonthKeys(grouped) == reverse(sort(ObjectKeys(grouped.months)))

\* Number(value)
ParseDecimal(s) ==
    \* digits [ "." digits ] as tenths (weights carry one decimal: the weight
    \* input steps by 0.1); NaN when s is not of that form
    LET dot == IF \E i \in 1..Len(s) : s[i] = "."
               THEN CHOOSE i \in 1..Len(s) : s[i] = "." /\ \A j \in 1..(i - 1) : s[j] # "."
               ELSE Len(s) + 1
        int == SubSeq(s, 1, dot - 1)
        frac == SubSeq(s, dot + 1, Len(s))
    IN  IF /\ \A i \in 1..Len(int) : IsDigit(int[i])
           /\ \A i \in 1..Len(frac) : IsDigit(frac[i])
           /\ int # <<>> \/ frac # <<>>
        THEN Num(10 * DigitsValue(int) + (IF frac = <<>> THEN 0 ELSE DigitValue(frac[1])))
        ELSE NaN

Negate(v) == IF v.kind = "number" THEN Num(0 - v.val) ELSE v

Number(v) ==
    CASE v.kind = "number" -> v
      [] v.kind = "NaN" -> NaN
      [] v.kind = "null" -> Num(0)
      [] v.kind = "undefined" -> NaN
      [] v.kind = "string" ->
            LET s == trim(v.val)
            IN  IF s = <<>> THEN Num(0)
                ELSE IF Head(s) = "-" THEN Negate(ParseDecimal(Tail(s)))
                ELSE IF Head(s) = "+" THEN ParseDecimal(Tail(s))
                ELSE ParseDecimal(s)

\* the operand taken as it is: NaN is not replaced and spreads to the sum,
\* which is then no number (counted here as -1)
OrZero_Unguarded(v) == IF v.kind = "number" THEN v.val ELSE -1

\* value || 0 for a numeric operand
OrZero(v) == IF v.kind = "number" /\ v.val # 0 THEN v.val ELSE 0

RECURSIVE totalWeight(_)
totalWeight(records) ==
    IF records = <<>> THEN 0
    ELSE totalWeight(SubSeq(records, 1, Len(records) - 1))
            + OrZero(Number(records[Len(records)].laundry_weight_kg))

RECURSIVE totalPrice(_)
totalPrice(records) ==
    IF records = <<>> THEN 0
    ELSE totalPrice(SubSeq(records, 1, Len(records) - 1))
            + OrZero(records[Len(records)].price)

\* the cards of one month, as rendered: Object.values(services).map
ServiceCards(services) ==
    LET values == ObjectValues(services)
    IN  [i \in 1..Len(values) |->
            [displayName |-> values[i].displayName,
             records |-> values[i].records,
             totalWeight |-> totalWeight(values[i].records),
             totalPrice |-> totalPrice(values[i].records)]]

\* sortedMonthKeys.map: one section per month bucket, in display order
MonthSections(grouped, keys) ==
    [i \in 1..Len(keys) |->
        [monthKey |-> keys[i],
         label |-> GetOwn(grouped.months, keys[i]).label,
         cards |-> ServiceCards(GetOwn(grouped.months, keys[i]).services)]]

RenderGrouped(grouped) ==
    IF grouped.threw
    THEN [threw |-> TRUE, sections |-> <<>>]
    ELSE [threw |-> FALSE,
          sections |-> CHOOSE sections \in
              {MonthSections(grouped, keys) : keys \in {sortedMonthKeys(grouped)}} : TRUE]

\* what a render of App computes from history
Render(h) ==
    CHOOSE r \in {RenderGrouped(grouped) : grouped \in {groupedHistory(h)}} : TRUE

-----------------------------------------------------------------------------
(* Numbers and text *)

\* the longest prefix of s made of digits with at most one "."
RECURSIVE NumericPrefixLen(_, _, _)
NumericPrefixLen(s, i, seenDot) ==
    IF i > Len(s) THEN Len(s)
    ELSE IF IsDigit(s[i]) THEN NumericPrefixLen(s, i + 1, seenDot)
    ELSE IF s[i] = "." /\ ~seenDot THEN NumericPrefixLen(s, i + 1, TRUE)
    ELSE i - 1

\* parseFloat(text): leading white space skipped, an optional sign, then the
\* longest numeric prefix; NaN when there is none
parseFloat(text) ==
    LET s == trimStart(text)
        signed == s # <<>> /\ Head(s) \in {"-", "+"}
        body == IF signed THEN Tail(s) ELSE s
        prefix == SubSeq(body, 1, NumericPrefixLen(body, 1, FALSE))
        value == ParseDecimal(prefix)
    IN  IF signed /\ Head(s) = "-" THEN Negate(value) ELSE value

isNaN(v) == v.kind = "NaN"

\* String(n) of a number counted in tenths
NumberToString(n) ==
    LET a == IF n < 0 THEN 0 - n ELSE n
        whole == DecimalDigits(a \div 10)
        digits == IF a % 10 = 0 THEN whole ELSE whole \o <<".">> \o DecimalDigits(a % 10)
    IN  IF n < 0 THEN <<"-">> \o digits ELSE digits

\* value.toString() of a weight: a number or a string
toString(v) == IF v.kind = "number" THEN NumberToString(v.val) ELSE v.val

-----------------------------------------------------------------------------
(* Records *)

Obj(r) == [kind |-> "object", val |-> r]
File == [kind |-> "File", val |-> 0]

LaundryOrderResult(name, order, customer, address, weight, price, confidence, ts, wsrc, csrc) ==
    [laundry_service_name |-> name,
     shopify_order_number |-> order,
     customer_name |-> customer,
     delivery_address |-> address,
     laundry_weight_kg |-> weight,
     price |-> price,
     extraction_confidence_score |-> confidence,
     timestamp |-> ts,
     weight_image_src |-> wsrc,
     customer_image_src |-> csrc]

DATA_UNCLEAR == Str(Text("DATA_UNCLEAR"))

\* 2023-12-31, 2024-02-05, 2024-02-20, 2024-10-10
Timestamps == {19722, 19758, 19773, 20006}

\* service names: two spellings of one service, an integer-like name and
\* the name of an inherited property
ServiceNames == {<<"A","b">>, <<" ","a","B"," ">>, <<"7">>, Text("constructor")}

\* names the operator types in the workflow
TypedNames == {<<"A","b">>, Text("constructor")}

\* the clock readings a draft may carry: before and after the stored records
DraftTimestamps == {19722, 20006}

\* weight and price of the stored records of a service: numbers, or the
\* unclear marker with no price
StoredWeight(name) ==
    CASE name = <<"A","b">> -> Num(35)
      [] name = <<" ","a","B"," ">> -> DATA_UNCLEAR
      [] OTHER -> Num(42)

StoredPrice(name) ==
    CASE name = <<"A","b">> -> Num(700)
      [] name = <<" ","a","B"," ">> -> undefined
      [] OTHER -> Num(1050)

StoredRecord(name, t) ==
    LaundryOrderResult(name, <<"1">>, <<"A","n","a">>, <<"R","\n","1">>,
                       StoredWeight(name), StoredPrice(name), 90, t, Str(<<"w">>), undefined)

StoredRecords == {StoredRecord(n, t) : n \in ServiceNames, t \in Timestamps}

DistinctTimestamps(h) ==
    \A i, j \in 1..Len(h) : i # j => h[i].timestamp # h[j].timestamp

\* the ledgers of at most n records out of pool, timestamps unique
Ledgers(pool, n) ==
    {h \in UNION {[1..k -> pool] : k \in 0..n} : DistinctTimestamps(h)}

-----------------------------------------------------------------------------
(* Persistence: the item is absent (null), unparsable, or the JSON text of  *)
(* a ledger                                                                *)

Corrupt == [kind |-> "corrupt", val |-> 0]
Json(h) == [kind |-> "json", val |-> h]

\* JSON.stringify of one value: NaN becomes null, an undefined property is
\* left out (and reads back as undefined)
StringifyValue(v) == IF v.kind = "NaN" THEN null ELSE v

JSONstringify(h) ==
    Json([i \in 1..Len(h) |->
            [h[i] EXCEPT !.laundry_weight_kg = StringifyValue(@),
                         !.price = StringifyValue(@)]])

\* the JSON text [null]: it parses, to an array that holds no record
NullEntry == Json(<<null>>)

\* the lazy initializer of history
loadHistory(saved) ==
    IF saved.kind = "json" THEN saved.val   \* JSON.parse(saved)
    ELSE <<>>                               \* no item, or JSON.parse threw

\* the effect that follows a render with a new history: setItem throws when
\* the storage is full, and the throw is caught; a render that threw runs no
\* effect
SaveEffect ==
    /\ localStorage' = IF quotaExceeded \/ rendered'.threw
                       THEN localStorage
                       ELSE JSONstringify(history')
    /\ UNCHANGED quotaExceeded

-----------------------------------------------------------------------------
(* Pricing (services/geminiService) *)

\* price in cents of a weight in tenths of a kilogram
calculatePrice(weight) == 25 * weight

-----------------------------------------------------------------------------
(* Extraction collaborator (services/geminiService) *)

\* what one extraction may return besides the service name and the timestamp
ExtractedFields ==
    {[order |-> <<"1","0">>, customer |-> <<"A","n","a">>, address |-> <<"R","\n","1">>,
      weight |-> Num(35), price |-> Num(900), confidence |-> 95,
      wsrc |-> Str(<<"w">>), csrc |-> Str(<<"c">>)],
     [order |-> <<>>, customer |-> <<>>, address |-> <<>>,
      weight |-> DATA_UNCLEAR, price |-> Num(0), confidence |-> 40,
      wsrc |-> undefined, csrc |-> undefined]}

extractLaundryData(name, ts) ==
    {LaundryOrderResult(name, f.order, f.customer, f.address, f.weight, f.price,
                        f.confidence, ts, f.wsrc, f.csrc) : f \in ExtractedFields}

-----------------------------------------------------------------------------
(* ResultsView *)

\* what the operator may type into the three inputs
WeightTexts == {<<>>, <<"1","2",".","5">>}
NameTexts == {<<"Z","\"">>}
AddressTexts == {<<"X","\n","Y">>}

\* the effect without its else branch: an unparsable text leaves the price
\* that is shown
recalculatePrice_KeepPrevious(editedWeight) ==
    LET weight == parseFloat(editedWeight)
    IN  IF ~isNaN(weight) THEN calculatePrice(weight.val)
        ELSE IF resultsView = null THEN 0 ELSE resultsView.val.currentPrice

\* the effect on [editedWeight]
recalculatePrice(editedWeight) ==
    LET weight == parseFloat(editedWeight)
    IN  IF ~isNaN(weight) THEN calculatePrice(weight.val) ELSE 0

\* the state as useState initializes it, the effect on [editedWeight] not
\* run: the price is the extracted one
ResultsViewState_ExtractedPrice(data) ==
    [isEditingWeight |-> FALSE,
     editedWeight |-> toString(data.laundry_weight_kg),
     currentPrice |-> OrZero(data.price),
     isEditingName |-> FALSE,
     editedName |-> data.customer_name,
     isEditingAddress |-> FALSE,
     editedAddress |-> data.delivery_address]

\* the component's state after mounting on a draft (its first effect has run)
ResultsViewState(data) ==
    [isEditingWeight |-> FALSE,
     editedWeight |-> toString(data.laundry_weight_kg),
     currentPrice |-> recalculatePrice(toString(data.laundry_weight_kg)),
     isEditingName |-> FALSE,
     editedName |-> data.customer_name,
     isEditingAddress |-> FALSE,
     editedAddress |-> data.delivery_address]

\* parseFloat(editedWeight) as it comes: NaN for a text that does not parse
WeightOrZero_Unguarded(editedWeight) == parseFloat(editedWeight)

\* parseFloat(editedWeight) || 0
WeightOrZero(editedWeight) == Num(OrZero(parseFloat(editedWeight)))

\* the record built without the image references
finalData_WithoutImages(data, v) ==
    [data EXCEPT !.laundry_weight_kg = WeightOrZero(v.editedWeight),
                 !.price = Num(v.currentPrice),
                 !.customer_name = v.editedName,
                 !.delivery_address = v.editedAddress,
                 !.weight_image_src = undefined,
                 !.customer_image_src = undefined]

\* the record built from the edited weight alone: name and address stay as
\* extracted
finalData_WeightOnly(data, v) ==
    [data EXCEPT !.laundry_weight_kg = WeightOrZero(v.editedWeight),
                 !.price = Num(v.currentPrice)]

finalData(data, v) ==
    [data EXCEPT !.laundry_weight_kg = WeightOrZero(v.editedWeight),
                 !.price = Num(v.currentPrice),
                 !.customer_name = v.editedName,
                 !.delivery_address = v.editedAddress]

-----------------------------------------------------------------------------
(* App *)

INPUT == "INPUT"
PROCESSING == "PROCESSING"
RESULT == "RESULT"

noError == "null"
CompleteAllFields == "Please complete all fields."
FailedToProcess == "Failed to process the order. Please ensure the API key is valid and try again."

\* the render threw: without an error boundary React unmounts the tree, no
\* handler runs any more and the effects of that render are not run
Crashed == rendered.threw

\* the detail modal's backdrop covers the page
ModalOpen == selectedOrder # null

\* the saved-batches section is rendered: sortedMonthKeys.length > 0 && step === Step.INPUT
HistoryShown == ~Crashed /\ ~ModalOpen /\ step = INPUT /\ Len(rendered.sections) > 0

\* the records listed on the cards
RenderedRecords ==
    UNION {UNION {Range(card.records) : card \in Range(section.cards)} :
              section \in Range(rendered.sections)}

TimestampsOf(h) == {h[i].timestamp : i \in 1..Len(h)}

InitWith(blobs, quotas) ==
    /\ localStorage \in blobs
    /\ quotaExceeded \in quotas
    /\ history = loadHistory(localStorage)
    /\ rendered = Render(history)
    /\ step = INPUT
    /\ serviceName = <<>>
    /\ weightPhoto = null
    /\ customerPhoto = null
    /\ error = noError
    /\ result = null
    /\ selectedOrder = null
    /\ isSelectionMode = FALSE
    /\ selectedTimestamps = {}
    /\ resultsView = null
    /\ ledgerOp = "load"
    /\ extractions = 0
    /\ download = null

\* the first render without the effect's write
saveOnMount_NoWrite ==
    /\ ledgerOp = "load"
    /\ ~Crashed
    /\ ledgerOp' = "mount"
    /\ download' = null
    /\ UNCHANGED <<quotaExceeded, extractions>>
    /\ UNCHANGED <<step, serviceName, weightPhoto, customerPhoto, error, result, history,
                   selectedOrder, isSelectionMode, selectedTimestamps, resultsView,
                   rendered, localStorage>>

\* the effect on [history] after the first render
saveOnMount ==
    /\ ledgerOp = "load"
    /\ ~Crashed
    /\ localStorage' = IF quotaExceeded THEN localStorage ELSE JSONstringify(history)
    /\ ledgerOp' = "mount"
    /\ UNCHANGED <<quotaExceeded, extractions>>
    /\ download' = null
    /\ UNCHANGED <<step, serviceName, weightPhoto, customerPhoto, error, result, history,
                   selectedOrder, isSelectionMode, selectedTimestamps, resultsView,
                   rendered>>

Running == ledgerOp # "load" /\ ~Crashed

\* the form rendered whatever the step
FormShown_AnyStep == Running /\ ~ModalOpen

FormShown == Running /\ ~ModalOpen /\ step = INPUT

setServiceName(value) ==
    /\ FormShown
    /\ serviceName' = value
    /\ UNCHANGED <<ledgerOp, quotaExceeded, extractions>>
    /\ download' = null
    /\ UNCHANGED <<step, weightPhoto, customerPhoto, error, result, history, selectedOrder,
                   isSelectionMode, selectedTimestamps, localStorage, resultsView,
                   rendered>>

setWeightPhoto(file) ==
    /\ FormShown
    /\ weightPhoto' = file
    /\ UNCHANGED <<ledgerOp, quotaExceeded, extractions>>
    /\ download' = null
    /\ UNCHANGED <<step, serviceName, customerPhoto, error, result, history, selectedOrder,
                   isSelectionMode, selectedTimestamps, localStorage, resultsView,
                   rendered>>

setCustomerPhoto(file) ==
    /\ FormShown
    /\ customerPhoto' = file
    /\ UNCHANGED <<ledgerOp, quotaExceeded, extractions>>
    /\ download' = null
    /\ UNCHANGED <<step, serviceName, weightPhoto, error, result, history, selectedOrder,
                   isSelectionMode, selectedTimestamps, localStorage, resultsView,
                   rendered>>

\* the attribute computed from the service name alone
SubmitDisabled_NameOnly == serviceName = <<>>

\* the submit button's disabled attribute
SubmitDisabled == serviceName = <<>> \/ weightPhoto = null \/ customerPhoto = null

\* handleSubmit up to the await
handleSubmit ==
    /\ FormShown
    /\ ~SubmitDisabled
    /\ IF serviceName = <<>> \/ weightPhoto = null \/ customerPhoto = null
       THEN /\ error' = CompleteAllFields
            /\ UNCHANGED <<step, extractions>>
       ELSE /\ step' = PROCESSING
            /\ error' = noError
            /\ extractions' = extractions + 1
    /\ UNCHANGED <<ledgerOp, quotaExceeded>>
    /\ download' = null
    /\ UNCHANGED <<serviceName, weightPhoto, customerPhoto, result, history, selectedOrder,
                   isSelectionMode, selectedTimestamps, localStorage, resultsView,
                   rendered>>

\* handleSubmit after the await: the call returned a draft, and ResultsView
\* mounts on it
extractResolved ==
    /\ Running
    /\ extractions > 0
    /\ extractions' = extractions - 1
    /\ \E ts \in DraftTimestamps \ TimestampsOf(history) :
        \E data \in extractLaundryData(serviceName, ts) :
            /\ result' = Obj(data)
            /\ resultsView' = Obj(ResultsViewState(data))
    /\ step' = RESULT
    /\ UNCHANGED <<ledgerOp, quotaExceeded>>
    /\ download' = null
    /\ UNCHANGED <<serviceName, weightPhoto, customerPhoto, error, history, selectedOrder,
                   isSelectionMode, selectedTimestamps, localStorage, rendered>>

\* the catch block that only returns to the input step: no message is set
extractRejected_Silent ==
    /\ Running
    /\ extractions > 0
    /\ extractions' = extractions - 1
    /\ step' = INPUT
    /\ UNCHANGED <<ledgerOp, quotaExceeded>>
    /\ download' = null
    /\ UNCHANGED <<serviceName, weightPhoto, customerPhoto, error, result, history,
                   selectedOrder, isSelectionMode, selectedTimestamps, localStorage,
                   resultsView, rendered>>

\* the catch block that also resets the form, as a confirmation does
extractRejected_ClearsInputs ==
    /\ Running
    /\ extractions > 0
    /\ extractions' = extractions - 1
    /\ error' = FailedToProcess
    /\ step' = INPUT
    /\ serviceName' = <<>>
    /\ weightPhoto' = null
    /\ customerPhoto' = null
    /\ UNCHANGED <<ledgerOp, quotaExceeded>>
    /\ download' = null
    /\ UNCHANGED <<result, history, selectedOrder, isSelectionMode, selectedTimestamps,
                   localStorage, resultsView, rendered>>

\* handleSubmit after the await: the call threw
extractRejected ==
    /\ Running
    /\ extractions > 0
    /\ extractions' = extractions - 1
    /\ error' = FailedToProcess
    /\ step' = INPUT
    /\ UNCHANGED <<ledgerOp, quotaExceeded>>
    /\ download' = null
    /\ UNCHANGED <<serviceName, weightPhoto, customerPhoto, result, history, selectedOrder,
                   isSelectionMode, selectedTimestamps, localStorage, resultsView,
                   rendered>>

-----------------------------------------------------------------------------
(* ResultsView handlers *)

ResultShown == Running /\ ~ModalOpen /\ step = RESULT /\ result # null

SetResultsView(field, value) ==
    /\ resultsView' = Obj([resultsView.val EXCEPT ![field] = value])
    /\ UNCHANGED <<step, serviceName, weightPhoto, customerPhoto, error, result, history,
                   selectedOrder, isSelectionMode, selectedTimestamps, localStorage,
                   rendered>>

\* the pencil button shows while viewing, the tick button while editing
setIsEditingWeight(b) ==
    /\ ResultShown
    /\ resultsView.val.isEditingWeight # b
    /\ SetResultsView("isEditingWeight", b)
    /\ UNCHANGED <<ledgerOp, quotaExceeded, extractions>>
    /\ download' = null

setIsEditingName(b) ==
    /\ ResultShown
    /\ resultsView.val.isEditingName # b
    /\ SetResultsView("isEditingName", b)
    /\ UNCHANGED <<ledgerOp, quotaExceeded, extractions>>
    /\ download' = null

setIsEditingAddress(b) ==
    /\ ResultShown
    /\ resultsView.val.isEditingAddress # b
    /\ SetResultsView("isEditingAddress", b)
    /\ UNCHANGED <<ledgerOp, quotaExceeded, extractions>>
    /\ download' = null

\* onChange of the weight input, with the effect on [editedWeight]
setEditedWeight(text) ==
    /\ ResultShown
    /\ resultsView.val.isEditingWeight
    /\ resultsView' = Obj([resultsView.val EXCEPT !.editedWeight = text,
                                                  !.currentPrice = recalculatePrice(text)])
    /\ UNCHANGED <<ledgerOp, quotaExceeded, extractions>>
    /\ download' = null
    /\ UNCHANGED <<step, serviceName, weightPhoto, customerPhoto, error, result, history,
                   selectedOrder, isSelectionMode, selectedTimestamps, localStorage,
                   rendered>>

setEditedName(text) ==
    /\ ResultShown
    /\ resultsView.val.isEditingName
    /\ SetResultsView("editedName", text)
    /\ UNCHANGED <<ledgerOp, quotaExceeded, extractions>>
    /\ download' = null

setEditedAddress(text) ==
    /\ ResultShown
    /\ resultsView.val.isEditingAddress
    /\ SetResultsView("editedAddress", text)
    /\ UNCHANGED <<ledgerOp, quotaExceeded, extractions>>
    /\ download' = null

\* the record put behind the others
prepend_AtEnd(record, prev) == Append(prev, record)

\* setHistory(prev => [finalData, ...prev])
prepend(record, prev) == <<record>> \o prev

\* ResultsView.handleSave, then App.handleSaveAndReset, the render and the
\* effect on [history]
handleSave ==
    /\ ResultShown
    /\ history' = prepend(finalData(result.val, resultsView.val), history)
    /\ rendered' = Render(history')
    /\ serviceName' = <<>>
    /\ weightPhoto' = null
    /\ customerPhoto' = null
    /\ result' = null
    /\ error' = noError
    /\ step' = INPUT
    /\ resultsView' = null
    /\ SaveEffect
    /\ ledgerOp' = "handleSave"
    /\ download' = null
    /\ UNCHANGED <<selectedOrder, isSelectionMode, selectedTimestamps, extractions>>

\* the discard that puts the draft on the ledger as it was extracted
handleDiscard_StoresDraft ==
    /\ ResultShown
    /\ history' = prepend(result.val, history)
    /\ rendered' = Render(history')
    /\ result' = null
    /\ step' = INPUT
    /\ resultsView' = null
    /\ SaveEffect
    /\ ledgerOp' = "handleDiscard"
    /\ download' = null
    /\ UNCHANGED <<serviceName, weightPhoto, customerPhoto, error, selectedOrder,
                   isSelectionMode, selectedTimestamps, extractions>>

\* the discard that returns to the input step and keeps the draft
handleDiscard_KeepsDraft ==
    /\ ResultShown
    /\ step' = INPUT
    /\ ledgerOp' = "handleDiscard"
    /\ download' = null
    /\ UNCHANGED <<quotaExceeded, extractions>>
    /\ UNCHANGED <<serviceName, weightPhoto, customerPhoto, error, result, history,
                   selectedOrder, isSelectionMode, selectedTimestamps, localStorage,
                   resultsView, rendered>>

handleDiscard ==
    /\ ResultShown
    /\ result' = null
    /\ step' = INPUT
    /\ resultsView' = null
    /\ ledgerOp' = "handleDiscard"
    /\ UNCHANGED <<quotaExceeded, extractions>>
    /\ download' = null
    /\ UNCHANGED <<serviceName, weightPhoto, customerPhoto, error, history, selectedOrder,
                   isSelectionMode, selectedTimestamps, localStorage, rendered>>

-----------------------------------------------------------------------------
(* Selection and deletion *)

\* the mode flipped with the selection left as it is
toggleSelectionMode_KeepSelection ==
    /\ Running
    /\ HistoryShown
    /\ isSelectionMode' = ~isSelectionMode
    /\ UNCHANGED <<ledgerOp, quotaExceeded, extractions>>
    /\ download' = null
    /\ UNCHANGED <<step, serviceName, weightPhoto, customerPhoto, error, result, history,
                   selectedOrder, selectedTimestamps, localStorage, resultsView,
                   rendered>>

toggleSelectionMode ==
    /\ Running
    /\ HistoryShown
    /\ isSelectionMode' = ~isSelectionMode
    /\ selectedTimestamps' = {}
    /\ UNCHANGED <<ledgerOp, quotaExceeded, extractions>>
    /\ download' = null
    /\ UNCHANGED <<step, serviceName, weightPhoto, customerPhoto, error, result, history,
                   selectedOrder, localStorage, resultsView, rendered>>

\* the timestamp added whether or not it is already selected
toggleSelection_AddOnly(selected, timestamp) == selected \cup {timestamp}

toggleSelection(selected, timestamp) ==
    IF timestamp \in selected THEN selected \ {timestamp} ELSE selected \cup {timestamp}

\* onClick of a record of a card
onRecordClick(record) ==
    /\ Running
    /\ HistoryShown
    /\ record \in RenderedRecords
    /\ IF isSelectionMode
       THEN /\ selectedTimestamps' = toggleSelection(selectedTimestamps, record.timestamp)
            /\ UNCHANGED selectedOrder
       ELSE /\ selectedOrder' = Obj(record)
            /\ UNCHANGED selectedTimestamps
    /\ UNCHANGED <<ledgerOp, quotaExceeded, extractions>>
    /\ download' = null
    /\ UNCHANGED <<step, serviceName, weightPhoto, customerPhoto, error, result, history,
                   isSelectionMode, localStorage, resultsView, rendered>>

\* HistoryModal: the backdrop and the close button
onClose ==
    /\ Running
    /\ ModalOpen
    /\ selectedOrder' = null
    /\ UNCHANGED <<ledgerOp, quotaExceeded, extractions>>
    /\ download' = null
    /\ UNCHANGED <<step, serviceName, weightPhoto, customerPhoto, error, result, history,
                   isSelectionMode, selectedTimestamps, localStorage, resultsView,
                   rendered>>

\* the filter with its test inverted: the selected records are the ones kept
filterSelected_KeepSelected(prev, selected) ==
    LET keep(item) == item.timestamp \in selected
    IN  SelectSeq(prev, keep)

\* prev.filter(item => !selectedTimestamps.has(item.timestamp))
filterSelected(prev, selected) ==
    LET keep(item) == item.timestamp \notin selected
    IN  SelectSeq(prev, keep)

\* the deletion that leaves the selection as it is
commitDeletion_KeepsSelection ==
    /\ history' = filterSelected(history, selectedTimestamps)
    /\ rendered' = Render(history')
    /\ isSelectionMode' = FALSE
    /\ UNCHANGED selectedTimestamps
    /\ SaveEffect

\* the deletion undone when the storage does not take the new ledger
commitDeletion_RollsBack ==
    /\ history' = IF quotaExceeded THEN history
                  ELSE filterSelected(history, selectedTimestamps)
    /\ rendered' = Render(history')
    /\ isSelectionMode' = FALSE
    /\ selectedTimestamps' = {}
    /\ SaveEffect

\* the three updates behind the confirmation, with the render and the effect
\* on [history]
commitDeletion ==
    /\ history' = filterSelected(history, selectedTimestamps)
    /\ rendered' = Render(history')
    /\ isSelectionMode' = FALSE
    /\ selectedTimestamps' = {}
    /\ SaveEffect

\* the handler without its two gates: the deletion commits at once
deleteSelected_Ungated(confirmed) ==
    /\ commitDeletion
    /\ ledgerOp' = IF confirmed THEN "deleteSelected" ELSE "deleteSelected:declined"
    /\ download' = null
    /\ UNCHANGED <<step, serviceName, weightPhoto, customerPhoto, error, result,
                   selectedOrder, resultsView, extractions>>

\* the handler; confirmed is the answer given to window.confirm
deleteSelected(confirmed) ==
    /\ IF Cardinality(selectedTimestamps) = 0
       THEN UNCHANGED <<history, isSelectionMode, selectedTimestamps, localStorage,
                        quotaExceeded, rendered, ledgerOp>>
       ELSE IF confirmed
       THEN /\ commitDeletion
            /\ ledgerOp' = "deleteSelected"
       ELSE /\ UNCHANGED <<history, isSelectionMode, selectedTimestamps, localStorage,
                           quotaExceeded, rendered>>
            /\ ledgerOp' = "deleteSelected:declined"
    /\ download' = null
    /\ UNCHANGED <<step, serviceName, weightPhoto, customerPhoto, error, result,
                   selectedOrder, resultsView, extractions>>

\* the Delete button: rendered in selection mode with a non-empty selection
onDeleteClick(confirmed) ==
    /\ Running
    /\ HistoryShown
    /\ isSelectionMode /\ Cardinality(selectedTimestamps) > 0
    /\ deleteSelected(confirmed)

-----------------------------------------------------------------------------
(* Export *)

\* s.replace(/c/g, by) for a one-character pattern
RECURSIVE replaceAll(_, _, _)
replaceAll(s, c, by) ==
    IF s = <<>> THEN <<>>
    ELSE (IF Head(s) = c THEN by ELSE <<Head(s)>>) \o replaceAll(Tail(s), c, by)

\* the field wrapped in quotes with its own quotes left single
quoted_Undoubled(s) == <<"\"">> \o s \o <<"\"">>

\* `"${s.replace(/"/g, '""')}"`
quoted(s) == <<"\"">> \o replaceAll(s, "\"", <<"\"","\"">>) \o <<"\"">>

\* `"${s.replace(/"/g, '""').replace(/\n/g, ' ')}"`
quotedAddress(s) ==
    <<"\"">> \o replaceAll(replaceAll(s, "\"", <<"\"","\"">>), "\n", <<" ">>) \o <<"\"">>

\* date.toLocaleDateString() and date.toLocaleTimeString() in the en-US
\* locale; a timestamp is a whole number of days, so the time is midnight
toLocaleDateString(timestamp) ==
    DecimalDigits(CivilFromDays(timestamp).month) \o <<"/">>
        \o DecimalDigits(CivilFromDays(timestamp).day) \o <<"/">>
        \o DecimalDigits(CivilFromDays(timestamp).year)

toLocaleTimeString(timestamp) == <<"1","2",":","0","0",":","0","0"," ","A","M">>

\* (cents / 100).toFixed(2)
toFixed(cents) ==
    DecimalDigits(cents \div 100) \o <<".">> \o padStart(DecimalDigits(cents % 100), 2, "0")

\* how Array.prototype.join writes an element
JoinedValue(v) ==
    CASE v.kind = "number" -> NumberToString(v.val)
      [] v.kind = "string" -> v.val
      [] v.kind = "NaN" -> <<"N","a","N">>
      [] OTHER -> <<>>      \* null and undefined

RECURSIVE join(_, _)
join(texts, separator) ==
    IF texts = <<>> THEN <<>>
    ELSE IF Len(texts) = 1 THEN texts[1]
    ELSE texts[1] \o separator \o join(Tail(texts), separator)

headers ==
    <<<<"D","a","t","e">>,
      <<"T","i","m","e">>,
      <<"L","a","u","n","d","r","y"," ","S","e","r","v","i","c","e">>,
      <<"O","r","d","e","r"," ","N","u","m","b","e","r">>,
      <<"C","u","s","t","o","m","e","r"," ","N","a","m","e">>,
      <<"D","e","l","i","v","e","r","y"," ","A","d","d","r","e","s","s">>,
      <<"W","e","i","g","h","t"," ","(","k","g",")">>,
      <<"P","r","i","c","e"," ","(","E","U","R",")">>>>

\* the values of one row
csvValues(row) ==
    <<toLocaleDateString(row.timestamp),
      toLocaleTimeString(row.timestamp),
      quoted(row.laundry_service_name),
      quoted(row.shopify_order_number),
      quoted(row.customer_name),
      quotedAddress(row.delivery_address),
      JoinedValue(row.laundry_weight_kg),
      toFixed(OrZero(row.price))>>

\* the rows written from the newest-first ledger turned round
csvRows_Reversed(h) ==
    <<join(headers, <<",">>)>>
        \o [i \in 1..Len(h) |-> join(csvValues(h[Len(h) + 1 - i]), <<",">>)]

\* csvRows after history.forEach
csvRows(h) ==
    <<join(headers, <<",">>)>> \o [i \in 1..Len(h) |-> join(csvValues(h[i]), <<",">>)]

\* the text of the blob
csvText(h) == join(csvRows(h), <<"\n">>)

\* the Export CSV button of the saved-batches section
exportToCSV ==
    /\ Running
    /\ HistoryShown
    /\ download' = IF Len(history) = 0 THEN null ELSE Str(csvText(history))
    /\ UNCHANGED <<step, serviceName, weightPhoto, customerPhoto, error, result, history,
                   selectedOrder, isSelectionMode, selectedTimestamps, localStorage,
                   resultsView, quotaExceeded, rendered, ledgerOp, extractions>>

-----------------------------------------------------------------------------
(* Specifications *)

FormActions ==
    \/ \E value \in TypedNames \cup {<<>>} : setServiceName(value)
    \/ \E file \in {null, File} : setWeightPhoto(file)
    \/ \E file \in {null, File} : setCustomerPhoto(file)
    \/ handleSubmit

ExtractionActions ==
    \/ extractResolved
    \/ extractRejected

EditActions ==
    \/ \E b \in BOOLEAN : setIsEditingWeight(b)
    \/ \E b \in BOOLEAN : setIsEditingName(b)
    \/ \E b \in BOOLEAN : setIsEditingAddress(b)
    \/ \E text \in WeightTexts : setEditedWeight(text)
    \/ \E text \in NameTexts : setEditedName(text)
    \/ \E text \in AddressTexts : setEditedAddress(text)

ConfirmActions ==
    \/ handleSave
    \/ handleDiscard

LedgerActions ==
    \/ toggleSelectionMode
    \/ \E record \in RenderedRecords : onRecordClick(record)
    \/ onClose
    \/ \E confirmed \in BOOLEAN : onDeleteClick(confirmed)
    \/ exportToCSV

\* stored ledgers the workflow starts from: one service, numeric weights
WorkflowPool == {StoredRecord(<<"A","b">>, t) : t \in Timestamps \ DraftTimestamps}

\* The ledger and the workflow: the operator confirms or discards each draft
\* as extracted.  No new entry is begun once the ledger holds MaxHistory
\* records.
Init ==
    InitWith({null, Corrupt} \cup {JSONstringify(h) : h \in Ledgers(WorkflowPool, MaxStored)},
             BOOLEAN)

Next ==
    \/ saveOnMount
    \/ (Len(history) < MaxHistory /\ FormActions)
    \/ ExtractionActions
    \/ ConfirmActions
    \/ LedgerActions

Spec == Init /\ [][Next]_vars

\* The start of the process on every kind of stored item: none, an
\* unparsable one, [null], a ledger, a ledger with a record of the service
\* "constructor"; then the ledger and the workflow as above.
LoadPool == WorkflowPool \cup {StoredRecord(Text("constructor"), 19758)}

InitLoad ==
    InitWith({null, Corrupt, NullEntry}
                \cup {JSONstringify(h) : h \in Ledgers(LoadPool, MaxStored)},
             BOOLEAN)

SpecLoad == InitLoad /\ [][Next]_vars

\* The draft: the operator edits the draft before confirming or discarding
\* it.  No new entry is begun once the ledger holds MaxDrafts records.
InitDraft == InitWith({null, Corrupt}, BOOLEAN)

NextDraft ==
    \/ saveOnMount
    \/ (Len(history) < MaxDrafts /\ FormActions)
    \/ ExtractionActions
    \/ EditActions
    \/ ConfirmActions

SpecDraft == InitDraft /\ [][NextDraft]_vars

\* The export of stored ledgers whose text fields hold quotes, commas and
\* newlines
ExportTexts == {<<>>, <<"O","\"","B">>, <<"a",",","b">>, <<"x","\n","y">>, <<"\"","\"">>}
ExportTimestamps == {19722, 19758}

ExportRecord(a, b, t) ==
    LaundryOrderResult(a, b, b, a,
                       IF t = 19722 THEN Num(35) ELSE DATA_UNCLEAR,
                       IF t = 19722 THEN Num(875) ELSE undefined,
                       90, t, undefined, undefined)

ExportRecords ==
    {ExportRecord(a, b, t) : a \in ExportTexts, b \in ExportTexts, t \in ExportTimestamps}

InitExport == InitWith({JSONstringify(h) : h \in Ledgers(ExportRecords, MaxExport)}, BOOLEAN)

NextExport ==
    \/ saveOnMount
    \/ exportToCSV
    \/ \E record \in RenderedRecords : onRecordClick(record)
    \/ onClose

SpecExport == InitExport /\ [][NextExport]_vars

\* The aggregator over every stored ledger, with the detail view
InitGroup == InitWith({JSONstringify(h) : h \in Ledgers(StoredRecords, MaxLedger)}, BOOLEAN)

NextGroup ==
    \/ saveOnMount
    \/ \E record \in RenderedRecords : onRecordClick(record)
    \/ onClose

SpecGroup == InitGroup /\ [][NextGroup]_vars

-----------------------------------------------------------------------------
(* The grouped view *)

\* the places of a view where a record is listed: <<section, card, position>>
Places(view) ==
    UNION {UNION {{<<s, c, p>> : p \in 1..Len(view.sections[s].cards[c].records)} :
                     c \in 1..Len(view.sections[s].cards)} :
              s \in 1..Len(view.sections)}

RecordAt(view, place) == view.sections[place[1]].cards[place[2]].records[place[3]]

Cards(view) ==
    UNION {Range(section.cards) : section \in Range(view.sections)}

SameMonth(t, u) ==
    /\ CivilFromDays(t).year = CivilFromDays(u).year
    /\ CivilFromDays(t).month = CivilFromDays(u).month

\* C1: the records listed in the service groups of the month buckets of the
\* grouped view are exactly the records of the ledger: every record of the
\* ledger is listed at exactly one place, and nothing else is listed.
C1_GroupedRecordsAreTheLedger ==
    /\ \A i \in 1..Len(history) :
          Cardinality({place \in Places(rendered) :
                          RecordAt(rendered, place) = history[i]}) = 1
    /\ Cardinality(Places(rendered)) = Len(history)

\* the month of a label is later than the month of another
LaterMonth(a, b) == a.year > b.year \/ (a.year = b.year /\ a.month > b.month)

\* C2: the month buckets are listed with strictly descending sort keys, most
\* recent month first, whatever the storage order of the ledger; every
\* record listed in a bucket is of the bucket's month.
C2_MonthsDescending ==
    /\ \A i, j \in 1..Len(rendered.sections) :
          i < j => /\ StringLess(rendered.sections[j].monthKey,
                                 rendered.sections[i].monthKey)
                   /\ LaterMonth(rendered.sections[i].label, rendered.sections[j].label)
    /\ \A section \in Range(rendered.sections) :
          \A card \in Range(section.cards) :
              \A record \in Range(card.records) :
                  /\ CivilFromDays(record.timestamp).year = section.label.year
                  /\ CivilFromDays(record.timestamp).month = section.label.month

\* three buckets rendered from a ledger stored oldest first
C2_Witness ==
    /\ Len(history) = 3
    /\ history[1].timestamp < history[2].timestamp
    /\ history[2].timestamp < history[3].timestamp
    /\ Len(rendered.sections) = 3
    /\ rendered.sections[1].label = [month |-> 10, year |-> 2024]
    /\ rendered.sections[2].label = [month |-> 2, year |-> 2024]
    /\ rendered.sections[3].label = [month |-> 12, year |-> 2023]

\* records i and j of the ledger are listed on one card
SameGroup(i, j) ==
    \E card \in Cards(rendered) :
        history[i] \in Range(card.records) /\ history[j] \in Range(card.records)

\* the first record of the ledger, in storage order, listed on the card
FirstSeen(card) ==
    history[CHOOSE i \in 1..Len(history) :
                /\ history[i] \in Range(card.records)
                /\ \A j \in 1..(i - 1) : history[j] \notin Range(card.records)]

\* C3: two records are in one service group iff they are of one month and
\* their service names are equal after trimming and lower-casing; the
\* display name of a group is the trimmed name of its first record in
\* storage order.
C3_GroupedByNormalizedName ==
    /\ \A i, j \in 1..Len(history) :
          SameGroup(i, j) <=>
              /\ SameMonth(history[i].timestamp, history[j].timestamp)
              /\ toLowerCase(trim(history[i].laundry_service_name))
                    = toLowerCase(trim(history[j].laundry_service_name))
    /\ \A card \in Cards(rendered) :
          /\ card.records # <<>>
          /\ card.displayName = trim(FirstSeen(card).laundry_service_name)

\* what a member adds to the totals of its group
MemberWeight(record) ==
    IF record.laundry_weight_kg.kind = "number" THEN record.laundry_weight_kg.val ELSE 0

MemberPrice(record) ==
    IF record.price.kind = "number" THEN record.price.val ELSE 0

RECURSIVE SumWeights(_)
SumWeights(records) ==
    IF records = <<>> THEN 0 ELSE MemberWeight(Head(records)) + SumWeights(Tail(records))

RECURSIVE SumPrices(_)
SumPrices(records) ==
    IF records = <<>> THEN 0 ELSE MemberPrice(Head(records)) + SumPrices(Tail(records))

\* C4: the total weight of a service group is the sum of its members'
\* weights with a member of unclear weight adding 0, its total price is the
\* sum of its members' prices with a missing price adding 0, and both are
\* numbers.
C4_Totals ==
    \A card \in Cards(rendered) :
        /\ card.totalWeight \in Nat
        /\ card.totalPrice \in Nat
        /\ card.totalWeight = SumWeights(card.records)
        /\ card.totalPrice = SumPrices(card.records)

\* a group of two: a member of unclear weight and no price, and a member of
\* 3.5 kg at 7.00
C4_Witness ==
    \E card \in Cards(rendered) :
        /\ Len(card.records) = 2
        /\ \E record \in Range(card.records) :
              record.laundry_weight_kg = DATA_UNCLEAR /\ record.price = undefined
        /\ card.totalWeight = 35
        /\ card.totalPrice = 700

-----------------------------------------------------------------------------
(* Selection and deletion: properties *)

\* the positions of ledger h whose record is not selected
Kept(h, selected) == {i \in 1..Len(h) : h[i].timestamp \notin selected}

\* the k-th kept position, counted from the front
NthKept(h, selected, k) ==
    CHOOSE i \in Kept(h, selected) :
        Cardinality({j \in Kept(h, selected) : j <= i}) = k

\* after is before with exactly the selected records removed, the others in
\* their previous relative order
IsLedgerWithout(after, before, selected) ==
    /\ Len(after) = Cardinality(Kept(before, selected))
    /\ \A k \in 1..Len(after) : after[k] = before[NthKept(before, selected, k)]

\* C5: a confirmed deletion with a non-empty selection leaves the ledger
\* with exactly the records whose timestamp is selected removed and the
\* others in their previous relative order, turns the selection mode off and
\* empties the selection.
C5_ConfirmedDeletion ==
    [][onDeleteClick(TRUE) =>
          /\ selectedTimestamps # {}
          /\ IsLedgerWithout(history', history, selectedTimestamps)
          /\ isSelectionMode' = FALSE
          /\ selectedTimestamps' = {}]_vars

\* a deletion has left two records of a ledger of three
C5_Witness ==
    /\ ledgerOp = "deleteSelected"
    /\ Len(history) = 2
    /\ localStorage = JSONstringify(history)
    /\ ~isSelectionMode
    /\ selectedTimestamps = {}

\* C6: the delete operation changes nothing unless the selection is
\* non-empty and the operator answers yes: called with an empty selection,
\* or declined at the prompt, it leaves the ledger, the selection and the
\* selection mode as they are.
C6_DeleteIsGated ==
    /\ [][onDeleteClick(FALSE) =>
             UNCHANGED <<history, selectedTimestamps, isSelectionMode>>]_vars
    /\ [](selectedTimestamps = {} =>
             \A confirmed \in BOOLEAN :
                 ~ENABLED (/\ deleteSelected(confirmed)
                           /\ <<history, selectedTimestamps, isSelectionMode>>'
                                 # <<history, selectedTimestamps, isSelectionMode>>))

\* the operator declined: the selection and the mode are still there
C6_Witness ==
    /\ ledgerOp = "deleteSelected:declined"
    /\ isSelectionMode
    /\ Cardinality(selectedTimestamps) = 2
    /\ Len(history) = 3

\* C7: with the selection mode off the selection is empty; it is empty after
\* the mode is toggled, on or off, and after a deletion commits.
C7_NormalModeHasNoSelection ==
    /\ [](~isSelectionMode => selectedTimestamps = {})
    /\ [][toggleSelectionMode => selectedTimestamps' = {}]_vars
    /\ [][onDeleteClick(TRUE) => selectedTimestamps' = {}]_vars

\* the mode was turned off after a declined deletion, whose selection was
\* not empty
C7_Witness ==
    /\ ledgerOp = "deleteSelected:declined"
    /\ ~isSelectionMode
    /\ selectedTimestamps = {}

\* C8: a click on a record in selection mode flips the membership of its
\* timestamp and of no other; toggling a timestamp twice restores the set.
C8_ToggleFlipsOne ==
    /\ [][\A record \in RenderedRecords :
             (isSelectionMode /\ onRecordClick(record)) =>
                 /\ record.timestamp \in selectedTimestamps'
                       <=> record.timestamp \notin selectedTimestamps
                 /\ \A other \in Timestamps \ {record.timestamp} :
                       other \in selectedTimestamps' <=> other \in selectedTimestamps]_vars
    /\ [](\A timestamp \in Timestamps :
             toggleSelection(toggleSelection(selectedTimestamps, timestamp), timestamp)
                 = selectedTimestamps)

\* two of three records selected, the middle one not
C8_Witness ==
    /\ isSelectionMode
    /\ Len(history) = 3
    /\ selectedTimestamps = {history[1].timestamp, history[3].timestamp}

-----------------------------------------------------------------------------
(* Confirmation of a draft: properties *)

\* C9: the record a confirmation puts on the ledger has the service name,
\* order number, confidence, timestamp and both image references of the
\* draft, whatever was edited.
C9_ConfirmKeepsTheRest ==
    [][handleSave =>
          /\ Len(history') = Len(history) + 1
          /\ history'[1].laundry_service_name = result.val.laundry_service_name
          /\ history'[1].shopify_order_number = result.val.shopify_order_number
          /\ history'[1].extraction_confidence_score
                = result.val.extraction_confidence_score
          /\ history'[1].timestamp = result.val.timestamp
          /\ history'[1].weight_image_src = result.val.weight_image_src
          /\ history'[1].customer_image_src = result.val.customer_image_src]_vars

\* a draft confirmed after its weight, name and address were edited
C9_Witness ==
    /\ ledgerOp = "handleSave"
    /\ Len(history) = 1
    /\ history[1].laundry_weight_kg = Num(125)
    /\ history[1].customer_name = <<"Z","\"">>
    /\ history[1].delivery_address = <<"X","\n","Y">>
    /\ history[1].laundry_service_name = <<"A","b">>
    /\ history[1].shopify_order_number = <<"1","0">>
    /\ history[1].extraction_confidence_score = 95
    /\ history[1].weight_image_src = Str(<<"w">>)
    /\ history[1].customer_image_src = Str(<<"c">>)

\* the stored weight is the value the weight text shows
ShowsWeight(text, weight) == toString(weight) = text \/ parseFloat(text) = weight

\* C10 as stated: the weight, price, customer name and delivery address of
\* the record a confirmation stores equal the working values of those
\* fields at the moment of confirmation.
C10_StoresWorkingValues ==
    [][handleSave =>
          /\ ShowsWeight(resultsView.val.editedWeight, history'[1].laundry_weight_kg)
          /\ history'[1].price = Num(resultsView.val.currentPrice)
          /\ history'[1].customer_name = resultsView.val.editedName
          /\ history'[1].delivery_address = resultsView.val.editedAddress]_vars

\* the number a weight text stands for, 0 when it stands for none
ParsedOrZero(text) == IF isNaN(parseFloat(text)) THEN Num(0) ELSE parseFloat(text)

\* C10: the record a confirmation stores has the working price, customer
\* name and delivery address, and as weight the number parsed from the
\* working weight text, or 0 when the text does not parse (empty, or the
\* unclear marker).
C10_StoresParsedWorkingValues ==
    [][handleSave =>
          /\ history'[1].laundry_weight_kg = ParsedOrZero(resultsView.val.editedWeight)
          /\ history'[1].price = Num(resultsView.val.currentPrice)
          /\ history'[1].customer_name = resultsView.val.editedName
          /\ history'[1].delivery_address = resultsView.val.editedAddress]_vars

\* a draft extracted with 3.5 kg, confirmed with its weight text emptied and
\* its name and address edited
C10_Witness ==
    /\ ledgerOp = "handleSave"
    /\ Len(history) = 1
    /\ history[1].extraction_confidence_score = 95
    /\ history[1].laundry_weight_kg = Num(0)
    /\ history[1].price = Num(0)
    /\ history[1].customer_name = <<"Z","\"">>
    /\ history[1].delivery_address = <<"X","\n","Y">>

-----------------------------------------------------------------------------
(* The price of a draft: properties *)

\* the price the pricing function gives for the number a weight text parses
\* to, 0 when the text parses to none
PriceOfText(text) ==
    LET w == parseFloat(text)
    IN  IF w.kind = "number" THEN calculatePrice(w.val) ELSE 0

\* C11: while a draft is open, after every change of the weight text the
\* price shown is the pricing function's price for the weight the text
\* parses to, and 0 when the text does not parse; the previous price is
\* never kept, and a text edited back to a number is priced again.
C11_PriceFollowsWeightText ==
    /\ [](resultsView # null =>
            resultsView.val.currentPrice = PriceOfText(resultsView.val.editedWeight))
    /\ [][\A text \in WeightTexts :
            setEditedWeight(text) =>
                /\ resultsView'.val.editedWeight = text
                /\ resultsView'.val.currentPrice = PriceOfText(text)]_vars

\* a draft extracted with 3.5 kg whose weight text was emptied: the price
\* 8.75 is gone
C11_Witness ==
    /\ resultsView # null
    /\ result.val.laundry_weight_kg = Num(35)
    /\ resultsView.val.isEditingWeight
    /\ resultsView.val.editedWeight = <<>>
    /\ resultsView.val.currentPrice = 0

-----------------------------------------------------------------------------
(* The workflow: properties *)

\* C13: confirming a draft on a ledger L leaves the ledger that is the
\* confirmed record followed by L unchanged, one record more at the front,
\* and the workflow back in the input state with no draft open.
C13_ConfirmPrepends ==
    [][handleSave =>
          /\ Len(history') = Len(history) + 1
          /\ history'[1] = finalData(result.val, resultsView.val)
          /\ \A i \in 1..Len(history) : history'[i + 1] = history[i]
          /\ result' = null
          /\ step' = INPUT
          /\ FormShown']_vars

\* C14: discarding a draft does nothing to the ledger: from the submission
\* of the batch to the discard the ledger and its stored copy stay as they
\* were, the draft is dropped and the workflow is back in the input state.
C14_DiscardLeavesLedger ==
    /\ [][handleDiscard =>
             /\ history' = history
             /\ localStorage' = localStorage
             /\ rendered' = rendered
             /\ result' = null
             /\ resultsView' = null
             /\ step' = INPUT
             /\ FormShown']_vars
    /\ [][(step # INPUT /\ ~handleSave) =>
             (history' = history /\ localStorage' = localStorage)]_vars

\* a draft discarded on a ledger of two records, which is still the ledger
\* and the stored copy
C14_Witness ==
    /\ ledgerOp = "handleDiscard"
    /\ step = INPUT
    /\ result = null
    /\ Len(history) = 2
    /\ localStorage = JSONstringify(history)

\* C15: at most one extraction is outstanding at any time, and one is
\* outstanding exactly in the processing state; a request starts only in
\* the input state with none outstanding, and in the processing and the
\* result state no submission is accepted, whatever the order of the
\* operator's events and the extraction's completion.
C15_OneExtractionAtATime ==
    /\ [](extractions \in {0, 1})
    /\ [](extractions = 1 <=> step = PROCESSING)
    /\ [](step # INPUT => ~ENABLED handleSubmit)
    /\ [][extractions' > extractions =>
             (step = INPUT /\ extractions = 0 /\ step' = PROCESSING)]_vars

\* a second batch submitted after a first draft was confirmed, its
\* extraction outstanding
C15_Witness ==
    /\ ledgerOp = "handleSave"
    /\ step = PROCESSING
    /\ extractions = 1
    /\ ~ENABLED handleSubmit

\* C16: an extraction ends in one of two ways.  When it returns, the
\* workflow is in the result state and holds the returned draft.  When it
\* fails, the workflow is in the input state with no draft, the ledger and
\* the submitted service name and photos are as they were, and the banner
\* shows a message that is not empty.  Nothing else happens in the
\* processing state.
C16_TwoOutcomes ==
    /\ [][step = PROCESSING => (extractResolved \/ extractRejected)]_vars
    /\ [][extractResolved =>
             /\ step' = RESULT
             /\ result' # null
             /\ result'.val \in extractLaundryData(serviceName, result'.val.timestamp)
             /\ ResultShown'
             /\ history' = history]_vars
    /\ [][extractRejected =>
             /\ step' = INPUT
             /\ result' = null
             /\ resultsView' = null
             /\ history' = history
             /\ localStorage' = localStorage
             /\ <<serviceName, weightPhoto, customerPhoto>>'
                    = <<serviceName, weightPhoto, customerPhoto>>
             /\ error' \notin {noError, ""}
             /\ FormShown']_vars

\* an extraction failed on a ledger of two records: the input state, the
\* banner, no draft
C16_Witness ==
    /\ step = INPUT
    /\ error = FailedToProcess
    /\ result = null
    /\ extractions = 0
    /\ Len(history) = 2

\* C17 as stated: when the extraction fails the inputs are discarded, the
\* service name and both photos are cleared.
C17_FailureClearsInputs ==
    [][extractRejected =>
          /\ serviceName' = <<>>
          /\ weightPhoto' = null
          /\ customerPhoto' = null
          /\ SubmitDisabled']_vars

\* C17: when the extraction fails the service name and both photos stay as
\* they were submitted, and the form can be submitted again as it is.
C17_FailureKeepsInputs ==
    [][extractRejected =>
          /\ serviceName' = serviceName /\ serviceName' # <<>>
          /\ weightPhoto' = weightPhoto /\ weightPhoto' # null
          /\ customerPhoto' = customerPhoto /\ customerPhoto' # null
          /\ FormShown'
          /\ ~SubmitDisabled']_vars

\* after a failed extraction the form still holds the name and both photos
\* and accepts the submission
C17_Witness ==
    /\ error = FailedToProcess
    /\ serviceName = <<"A","b">>
    /\ weightPhoto = File
    /\ customerPhoto = File
    /\ ENABLED handleSubmit

\* a required field of the form is missing
FieldMissing == serviceName = <<>> \/ weightPhoto = null \/ customerPhoto = null

\* C18: with the service name, the weight photo or the customer photo
\* missing a submission is blocked without a word: the form accepts no
\* submission, so no extraction starts and the step and the ledger stay as
\* they are, and the message about incomplete fields is never shown.
C18_MissingFieldBlocksSilently ==
    /\ [](FieldMissing => ~ENABLED handleSubmit)
    /\ [](error # CompleteAllFields)
    /\ [][FieldMissing => (extractions' = extractions /\ step' = step /\ error' = error)]_vars

\* the form with the name and the weight photo but no customer photo: no
\* submission is accepted and no message shows
C18_Witness ==
    /\ FormShown
    /\ serviceName = <<"A","b">>
    /\ weightPhoto = File
    /\ customerPhoto = null
    /\ error = noError
    /\ ~ENABLED handleSubmit

-----------------------------------------------------------------------------
(* Persistence: properties *)

\* C19: loading the ledger when the process starts never fails the system.
\* The first render succeeds; with no stored item, or one that does not
\* parse, the ledger is empty; with a stored item that parses the ledger is
\* what it holds.
C19_LoadNeverFails ==
    ledgerOp = "load" =>
        /\ ~Crashed
        /\ localStorage \in {null, Corrupt} => history = <<>>
        /\ localStorage.kind = "json" => history = localStorage.val

\* C20: the stored copy follows every change of the ledger.  After every
\* confirmation of a draft and every committed deletion the whole ledger is
\* saved, so that when the storage takes it the stored copy is the ledger in
\* memory; and the stored copy never changes to anything but the ledger in
\* memory.
C20_StoredCopyFollowsLedger ==
    /\ [][(handleSave \/ onDeleteClick(TRUE)) =>
             (~quotaExceeded => localStorage' = JSONstringify(history'))]_vars
    /\ [][localStorage' # localStorage => localStorage' = JSONstringify(history')]_vars

\* the save of the step was attempted and the storage refused it
SaveFailed == quotaExceeded /\ ~rendered'.threw

\* C21: when the save that follows a confirmation or a committed deletion
\* fails, the ledger in memory is the one the operation produced, the
\* workflow and the selection are as the operation leaves them, and no
\* message is set; later steps do not undo it (the ledger changes only by a
\* further confirmation or committed deletion).
C21_SaveFailureKeepsMemory ==
    /\ [][(handleSave /\ SaveFailed) =>
             /\ history' = <<finalData(result.val, resultsView.val)>> \o history
             /\ step' = INPUT /\ result' = null
             /\ error' = noError
             /\ isSelectionMode' = isSelectionMode
             /\ selectedTimestamps' = selectedTimestamps
             /\ localStorage' = localStorage]_vars
    /\ [][(onDeleteClick(TRUE) /\ SaveFailed) =>
             /\ IsLedgerWithout(history', history, selectedTimestamps)
             /\ Len(history') < Len(history)
             /\ step' = step /\ result' = result
             /\ error' = error
             /\ ~isSelectionMode' /\ selectedTimestamps' = {}
             /\ localStorage' = localStorage]_vars
    /\ [][(quotaExceeded /\ history' # history) =>
             (handleSave \/ onDeleteClick(TRUE))]_vars

\* a record deleted from a stored ledger of two while the storage is full:
\* one record in memory, two in the stored copy, no message
C21_Witness ==
    /\ quotaExceeded
    /\ ledgerOp = "deleteSelected"
    /\ Len(history) = 1
    /\ localStorage.kind = "json"
    /\ Len(localStorage.val) = 2
    /\ error = noError

-----------------------------------------------------------------------------
(* Export: properties *)

\* a CSV reader (RFC 4180): fields separated by commas, rows by newlines; a
\* quoted field runs to its closing quote, a doubled quote inside it stands
\* for one quote

\* the first comma or newline of text from position i on, Len(text) + 1 when
\* there is none
NextSeparator(text, i) ==
    CHOOSE j \in i..(Len(text) + 1) :
        /\ j = Len(text) + 1 \/ text[j] \in {",", "\n"}
        /\ \A k \in i..(j - 1) : text[k] \notin {",", "\n"}

\* j closes the quoted field opened at position i
ClosesQuote(text, i, j) ==
    \/ j = Len(text) + 1
    \/ /\ text[j] = "\""
       /\ Cardinality({k \in (i + 1)..(j - 1) : text[k] = "\""}) % 2 = 0
       /\ j = Len(text) \/ text[j + 1] # "\""

ClosingQuote(text, i) ==
    CHOOSE j \in (i + 1)..(Len(text) + 1) :
        ClosesQuote(text, i, j) /\ \A k \in (i + 1)..(j - 1) : ~ClosesQuote(text, i, k)

\* the inside of a quoted field with each doubled quote read as one
RECURSIVE Undouble(_)
Undouble(s) ==
    IF s = <<>> THEN <<>>
    ELSE IF Len(s) >= 2 /\ s[1] = "\"" /\ s[2] = "\""
    THEN <<"\"">> \o Undouble(SubSeq(s, 3, Len(s)))
    ELSE <<s[1]>> \o Undouble(Tail(s))

\* the field that starts at position i: where it ends and what it holds
FieldAt(text, i) ==
    IF i <= Len(text) /\ text[i] = "\""
    THEN LET close == ClosingQuote(text, i)
             end == NextSeparator(text, IF close > Len(text) THEN close ELSE close + 1)
         IN  [end |-> end,
              value |-> Undouble(SubSeq(text, i + 1, close - 1))
                            \o SubSeq(text, close + 1, end - 1)]
    ELSE LET end == NextSeparator(text, i)
         IN  [end |-> end, value |-> SubSeq(text, i, end - 1)]

RECURSIVE ParseCSV(_, _, _, _)
ParseCSV(text, i, row, rows) ==
    LET field == FieldAt(text, i)
        row1 == Append(row, field.value)
    IN  IF field.end > Len(text) THEN Append(rows, row1)
        ELSE IF text[field.end] = "," THEN ParseCSV(text, field.end + 1, row1, rows)
        ELSE ParseCSV(text, field.end + 1, <<>>, Append(rows, row1))

ReadCSV(text) == ParseCSV(text, 1, <<>>, <<>>)

\* the text with each newline turned into one space
OnOneLine(text) == [i \in 1..Len(text) |-> IF text[i] = "\n" THEN " " ELSE text[i]]

\* the row of the export that stands for a record
RowOf(record) ==
    <<toLocaleDateString(record.timestamp),
      toLocaleTimeString(record.timestamp),
      record.laundry_service_name,
      record.shopify_order_number,
      record.customer_name,
      OnOneLine(record.delivery_address),
      IF record.laundry_weight_kg.kind = "number"
      THEN NumberToString(record.laundry_weight_kg.val)
      ELSE record.laundry_weight_kg.val,
      toFixed(IF record.price.kind = "number" THEN record.price.val ELSE 0)>>

\* C22: the export of a ledger that is not empty is one header row and then
\* one row per record, the i-th row made from the i-th record of the ledger
\* as it is stored, not as it is grouped; the export leaves the ledger as it
\* is.
C22_ExportFollowsLedgerOrder ==
    [][exportToCSV =>
          /\ download' # null
          /\ \A rows \in {ReadCSV(download'.val)} :
                /\ Len(rows) = Len(history) + 1
                /\ rows[1] = headers
                /\ \A i \in 1..Len(history) : rows[i + 1] = RowOf(history[i])
          /\ history' = history
          /\ localStorage' = localStorage
          /\ rendered' = rendered]_vars

\* an export of two records of which the older is stored first: the grouped
\* view shows the newer one first, the file the older one
C22_Witness ==
    /\ download # null
    /\ Len(history) = 2
    /\ history[1].timestamp = 19722
    /\ history[2].timestamp = 19758
    /\ rendered.sections[1].cards[1].records[1] = history[2]
    /\ ReadCSV(download.val)[2] = RowOf(history[1])

\* the text fields of the rows of an export, the header aside: service
\* name, order number, customer name, delivery address
TextFields(rows) ==
    [i \in 1..(Len(rows) - 1) |-> SubSeq(rows[i + 1], 3, 6)]

\* C23: the text fields of the export are quoted so that a CSV reader gets
\* them back: the service name, the order number and the customer name as
\* they are, the delivery address with each newline as one space, so that no
\* newline is left in the address.
C23_QuotingRoundTrips ==
    [][exportToCSV =>
          \A fields \in {TextFields(ReadCSV(download'.val))} :
             /\ Len(fields) = Len(history)
             /\ \A i \in 1..Len(history) :
                   /\ Len(fields[i]) = 4
                   /\ fields[i][1] = history[i].laundry_service_name
                   /\ fields[i][2] = history[i].shopify_order_number
                   /\ fields[i][3] = history[i].customer_name
                   /\ fields[i][4] = OnOneLine(history[i].delivery_address)
                   /\ "\n" \notin Range(fields[i][4])]_vars

\* an export of a record named O"B whose address holds a newline, and of
\* one whose name holds a comma
C23_Witness ==
    /\ download # null
    /\ Len(history) = 2
    /\ history[1].laundry_service_name = <<"O","\"","B">>
    /\ history[1].delivery_address = <<"O","\"","B">>
    /\ history[1].customer_name = <<"x","\n","y">>
    /\ history[2].laundry_service_name = <<"x","\n","y">>
    /\ history[2].shopify_order_number = <<"a",",","b">>
    /\ ReadCSV(download.val)[2][3] = <<"O","\"","B">>
    /\ ReadCSV(download.val)[3][6] = <<"x"," ","y">>

-----------------------------------------------------------------------------
(* The life of the process: properties *)

\* C24: no failure is fatal.  Once started the system is always usable: in
\* the input state the form takes the operator's events (or the detail view
\* can be closed to get to it), in the processing state the extraction can
\* complete, and in the result state the draft is shown with its Confirm
\* and Discard buttons, each of which leads back to the input state.
C24_NoFailureIsFatal ==
    ledgerOp # "load" =>
        /\ ~Crashed
        /\ step \in {INPUT, PROCESSING, RESULT}
        /\ step = INPUT => (FormShown \/ ENABLED onClose)
        /\ step = PROCESSING => ENABLED extractRejected
        /\ step = RESULT => ResultShown

-----------------------------------------------------------------------------
(* The order inside a month bucket *)

\* where a record is stored in the ledger
StoredAt(record) == CHOOSE i \in 1..Len(history) : history[i] = record

\* where the first record of a card is stored in the ledger
FirstStoredAt(card) == StoredAt(FirstSeen(card))

\* C25: in a month bucket the service groups are listed in the order in
\* which their first records are stored in the ledger, and in a service
\* group the records are listed in the order in which they are stored;
\* this for every service name.
C25_GroupsInFirstSeenOrder ==
    /\ \A section \in Range(rendered.sections) :
          \A c, d \in 1..Len(section.cards) :
              c < d => FirstStoredAt(section.cards[c]) < FirstStoredAt(section.cards[d])
    /\ \A card \in Cards(rendered) :
          \A p, q \in 1..Len(card.records) :
              p < q => StoredAt(card.records[p]) < StoredAt(card.records[q])

-----------------------------------------------------------------------------
(* The ledger and the draft: invariants *)

\* C26: a record of the ledger stays in it, unchanged and in the same order
\* with the others, until a confirmed deletion whose selection holds its
\* timestamp.  The ledger changes in two ways only: a confirmation puts one
\* record in front of it, a confirmed deletion takes out the selected
\* records; submitting, the end of an extraction, discarding, the selection
\* mode, a selection, the detail view and the export leave it as it is.
C26_LedgerChangesOnlyByConfirmAndDelete ==
    /\ [][history' # history =>
             \/ /\ handleSave
                /\ Len(history') = Len(history) + 1
                /\ \A i \in 1..Len(history) : history'[i + 1] = history[i]
             \/ /\ onDeleteClick(TRUE)
                /\ IsLedgerWithout(history', history, selectedTimestamps)]_vars
    /\ [][history' # history =>
             ~(\/ handleSubmit \/ extractResolved \/ extractRejected \/ handleDiscard
               \/ toggleSelectionMode \/ onClose \/ exportToCSV \/ onDeleteClick(FALSE)
               \/ \E record \in RenderedRecords : onRecordClick(record))]_vars

\* a draft confirmed on a stored ledger of two records, which are behind it
\* in their order
C26_Witness ==
    /\ ledgerOp = "handleSave"
    /\ Len(history) = 3
    /\ localStorage.kind = "json"
    /\ history[1].timestamp \in DraftTimestamps
    /\ {history[2].timestamp, history[3].timestamp} = Timestamps \ DraftTimestamps

\* C27: a draft is held exactly in the result state: there is none in the
\* input state and in the processing state, and the result state is not
\* entered without one.
C27_DraftIffResultState ==
    /\ [](result # null <=> step = RESULT)
    /\ [][step' = RESULT /\ step # RESULT => result' # null]_vars

\* a second draft is held after the first was discarded
C27_Witness ==
    /\ ledgerOp = "handleDiscard"
    /\ step = RESULT
    /\ result # null
    /\ resultsView # null

\* C28: the selected timestamps are always timestamps of records of the
\* ledger, also after a draft was confirmed with the selection mode on: no
\* selected timestamp is that of a record that is gone.
C28_SelectionWithinLedger ==
    /\ [](selectedTimestamps \subseteq TimestampsOf(history))
    /\ [][handleSave => (/\ selectedTimestamps' = selectedTimestamps
                         /\ isSelectionMode' = isSelectionMode
                         /\ selectedTimestamps' \subseteq TimestampsOf(history'))]_vars

\* a draft confirmed while a record of the ledger was selected: the
\* selection mode is still on and the record still selected
C28_Witness ==
    /\ ledgerOp = "handleSave"
    /\ isSelectionMode
    /\ Cardinality(selectedTimestamps) = 1
    /\ Len(history) = 3
    /\ selectedTimestamps \subseteq {history[2].timestamp, history[3].timestamp}

\* C29: the record a confirmation appends has a number as weight, never the
\* unclear marker: when the weight text of the draft is the unclear marker
\* or does not parse otherwise, the record is stored with weight 0 and
\* price 0.
C29_StoredWeightIsNumeric ==
    [][handleSave =>
          /\ history'[1].laundry_weight_kg.kind = "number"
          /\ history'[1].laundry_weight_kg # DATA_UNCLEAR
          /\ isNaN(parseFloat(resultsView.val.editedWeight)) =>
                (/\ history'[1].laundry_weight_kg = Num(0)
                 /\ history'[1].price = Num(0))]_vars

\* a draft extracted with an unclear weight, confirmed as it is and stored
\* with weight 0 and price 0
C29_Witness ==
    /\ ledgerOp = "handleSave"
    /\ Len(history) = 1
    /\ history[1].extraction_confidence_score = 40
    /\ history[1].customer_name = <<>>
    /\ history[1].laundry_weight_kg = Num(0)
    /\ history[1].price = Num(0)

\* C30: the ledger is written back to the storage when the process starts,
\* before anything changes it: the first step after the load is the save of
\* the loaded ledger, after which (the storage taking it) the stored copy is
\* the ledger in memory; a stored item that did not parse is replaced by
\* the empty ledger.
C30_WrittenBackAtStart ==
    /\ [][ledgerOp = "load" => saveOnMount]_vars
    /\ [][saveOnMount =>
             /\ history' = history
             /\ ~quotaExceeded => localStorage' = JSONstringify(history)
             /\ (~quotaExceeded /\ localStorage = Corrupt) =>
                    (history = <<>> /\ localStorage' = JSONstringify(<<>>))]_vars
    /\ [](ledgerOp = "mount" /\ ~quotaExceeded => localStorage = JSONstringify(history))

\* the process started with nothing to load and wrote the empty ledger
C30_Witness ==
    /\ ledgerOp = "mount"
    /\ ~quotaExceeded
    /\ history = <<>>
    /\ localStorage = JSONstringify(<<>>)
    /\ localStorage # Corrupt

====
